---- MODULE Spec2Model ----
(***************************************************************************)
(* Model of src/mapeamento_app.py: the column-name normalizer, the schema  *)
(* evolver (ensure_table_and_columns), the merge import                    *)
(* (import_excel_inteligente), update_single_record and the manual-entry   *)
(* handler, over a SQLite table with a TEXT PRIMARY KEY.                   *)
(*                                                                         *)
(* Strings are sequences of characters.  A character is a one-letter       *)
(* string; an accented letter is written as the letter followed by the     *)
(* name of its accent ("aac" is a-acute, "agr" a-grave, "aci"              *)
(* a-circumflex, "ati" a-tilde, "cce" c-cedilla) and still is ONE          *)
(* character of the sequence.                                              *)
(***************************************************************************)
EXTENDS Integers, Sequences, FiniteSets, TLC

\* ------------------------------------------------------------------------
\* Bounds of the model
\* ------------------------------------------------------------------------
MaxNameLen == 3
MaxRows == 2
MaxOps == 2
MaxEnsure == 3

\* ------------------------------------------------------------------------
\* Python values: the outcome of a call is a value or a raised exception
\* ------------------------------------------------------------------------
Ok(v) == [exc |-> "none", val |-> v]
Raise(e) == [exc |-> e, val |-> <<>>]

\* ------------------------------------------------------------------------
\* str.strip, str.lower, str.translate, re.sub as normalize_colname uses them
\* ------------------------------------------------------------------------
Whitespace == {" ", "\t"}

RECURSIVE lstrip(_, _)
lstrip(s, cs) ==
    IF s # <<>> /\ Head(s) \in cs THEN lstrip(Tail(s), cs) ELSE s

RECURSIVE rstrip(_, _)
rstrip(s, cs) ==
    IF s # <<>> /\ s[Len(s)] \in cs THEN rstrip(SubSeq(s, 1, Len(s) - 1), cs) ELSE s

strip(s) == rstrip(lstrip(s, Whitespace), Whitespace)

UpperChars ==
    << "A", "B", "C", "D", "E", "F", "G", "H", "I", "J", "K", "L", "M",
       "N", "O", "P", "Q", "R", "S", "T", "U", "V", "W", "X", "Y", "Z",
       "Aac", "Agr", "Aci", "Ati", "Eac", "Egr", "Eci", "Iac", "Igr", "Ici",
       "Oac", "Ogr", "Oci", "Oti", "Uac", "Ugr", "Uci", "Cce", "Nti" >>

LowerChars ==
    << "a", "b", "c", "d", "e", "f", "g", "h", "i", "j", "k", "l", "m",
       "n", "o", "p", "q", "r", "s", "t", "u", "v", "w", "x", "y", "z",
       "aac", "agr", "aci", "ati", "eac", "egr", "eci", "iac", "igr", "ici",
       "oac", "ogr", "oci", "oti", "uac", "ugr", "uci", "cce", "nti" >>

IndexOf(c, seq) == CHOOSE i \in 1..Len(seq) : seq[i] = c /\ \A j \in 1..(i - 1) : seq[j] # c

InSeq(c, seq) == \E i \in 1..Len(seq) : seq[i] = c

lowerChar(c) == IF InSeq(c, UpperChars) THEN LowerChars[IndexOf(c, UpperChars)] ELSE c

lower(s) == [i \in 1..Len(s) |-> lowerChar(s[i])]

\* The two arguments of str.maketrans on line 27, character by character.
AccentsFrom ==
    << "Aac", "Agr", "Aci", "Ati", "aac", "agr", "aci", "ati",
       "Eac", "Egr", "Eci", "eac", "egr", "eci",
       "Iac", "Igr", "Ici", "iac", "igr", "ici",
       "Oac", "Ogr", "Oci", "Oti", "oac", "ogr", "oci", "oti",
       "Uac", "Ugr", "Uci", "uac", "ugr", "uci",
       "Cce", "cce", "Nti", "nti" >>

AccentsTo ==
    << "A", "A", "A", "A", "a", "a", "a", "a",
       "E", "E", "E", "E", "e", "e", "e", "e",
       "I", "I", "I", "i", "i", "i",
       "O", "O", "O", "O", "o", "o", "o", "o",
       "U", "U", "U", "u", "u", "u",
       "C", "c", "N", "n" >>

\* str.maketrans(x, y): raises ValueError unless both strings have one length.
maketrans(x, y) ==
    IF Len(x) # Len(y) THEN Raise("ValueError") ELSE Ok(<<x, y>>)

translate(s, tab) ==
    [i \in 1..Len(s) |->
        IF InSeq(s[i], tab[1]) THEN tab[2][IndexOf(s[i], tab[1])] ELSE s[i]]

Alnum ==
    { "0", "1", "2", "3", "4", "5", "6", "7", "8", "9",
      "a", "b", "c", "d", "e", "f", "g", "h", "i", "j", "k", "l", "m",
      "n", "o", "p", "q", "r", "s", "t", "u", "v", "w", "x", "y", "z" }

RECURSIVE dropNonAlnum(_)
dropNonAlnum(s) ==
    IF s # <<>> /\ Head(s) \notin Alnum THEN dropNonAlnum(Tail(s)) ELSE s

\* re.sub(r"[^0-9a-z]+", "_", s)
RECURSIVE subNonAlnum(_)
subNonAlnum(s) ==
    IF s = <<>> THEN <<>>
    ELSE IF Head(s) \in Alnum THEN <<Head(s)>> \o subNonAlnum(Tail(s))
    ELSE <<"_">> \o subNonAlnum(dropNonAlnum(s))

\* re.sub(r"_+", "_", s)
RECURSIVE subUnderscores(_)
subUnderscores(s) ==
    IF s = <<>> THEN <<>>
    ELSE IF Head(s) = "_" THEN <<"_">> \o subUnderscores(lstrip(s, {"_"}))
    ELSE <<Head(s)>> \o subUnderscores(Tail(s))

col == << "c", "o", "l" >>

\* normalize_colname(name) for a str argument (pd.isna(name) is False).
normalize_colname(name) ==
    LET s1 == strip(name)
        accents == maketrans(AccentsFrom, AccentsTo)
    IN  IF accents.exc # "none" THEN Raise(accents.exc)
        ELSE LET s2 == translate(s1, accents.val)
                 s3 == lower(s2)
                 s4 == subNonAlnum(s3)
                 s5 == subUnderscores(s4)
                 s6 == rstrip(lstrip(s5, {"_"}), {"_"})
             IN  Ok(IF s6 = <<>> THEN col ELSE s6)

\* ------------------------------------------------------------------------
\* Names: the canonical columns and the synonym table (lines 90-102)
\* ------------------------------------------------------------------------
codigo == << "c", "o", "d", "i", "g", "o" >>
produto == << "p", "r", "o", "d", "u", "t", "o" >>
categoria == << "c", "a", "t", "e", "g", "o", "r", "i", "a" >>
rua == << "r", "u", "a" >>
nivel == << "n", "i", "v", "e", "l" >>
predio == << "p", "r", "e", "d", "i", "o" >>
qtde == << "q", "t", "d", "e" >>

friendly_to_normal ==
    { << << "c", "oac", "d", "i", "g", "o" >>, codigo >>,
      << codigo, codigo >>,
      << produto, produto >>,
      << categoria, categoria >>,
      << rua, rua >>,
      << << "n", "iac", "v", "e", "l" >>, nivel >>,
      << nivel, nivel >>,
      << << "p", "r", "eac", "d", "i", "o" >>, predio >>,
      << predio, predio >>,
      << qtde, qtde >>,
      << << "q", "u", "a", "n", "t", "i", "d", "a", "d", "e" >>, qtde >> }

FriendlyHas(low) == \E p \in friendly_to_normal : p[1] = low

FriendlyGet(low) == (CHOOSE p \in friendly_to_normal : p[1] = low)[2]

\* ------------------------------------------------------------------------
\* Values.  A Python object read from the sheet or a form (t is "nan" for a
\* float NaN, "none" for None, "str", "int") and a value stored by SQLite
\* (t is "null", "text", "integer") are records of one shape.
\* ------------------------------------------------------------------------
NaN == [t |-> "nan", s |-> <<>>, n |-> 0]
None == [t |-> "none", s |-> <<>>, n |-> 0]
Str(s) == [t |-> "str", s |-> s, n |-> 0]
Num(n) == [t |-> "int", s |-> <<>>, n |-> n]

Null == [t |-> "null", s |-> <<>>, n |-> 0]
Text(s) == [t |-> "text", s |-> s, n |-> 0]
Integer(n) == [t |-> "integer", s |-> <<>>, n |-> n]

Digits == << "0", "1", "2", "3", "4", "5", "6", "7", "8", "9" >>

RECURSIVE digitsValue(_)
digitsValue(ds) ==
    IF ds = <<>> THEN 0
    ELSE 10 * digitsValue(SubSeq(ds, 1, Len(ds) - 1)) + (IndexOf(ds[Len(ds)], Digits) - 1)

RECURSIVE digitsOf(_)
digitsOf(n) == IF n < 10 THEN << Digits[n + 1] >> ELSE digitsOf(n \div 10) \o << Digits[(n % 10) + 1] >>

\* str(n) of a Python int
intToStr(n) == IF n < 0 THEN << "-" >> \o digitsOf(0 - n) ELSE digitsOf(n)

\* int(float(val)) of lines 210 and 234.  For a str: optional sign, digits
\* with at most one ".", at least one digit; the value is truncated towards
\* zero.  Any other text raises ValueError (exponents, "inf", "nan" and "_"
\* cannot be written with the characters the cells of this model use).
int_float(val) ==
    IF val.t = "int" THEN Ok(val.n)
    ELSE IF val.t # "str" THEN Raise("TypeError")
    ELSE LET s == strip(val.s)
             signed == s # <<>> /\ Head(s) \in {"+", "-"}
             body == IF signed THEN Tail(s) ELSE s
             dots == {i \in 1..Len(body) : body[i] = "."}
             wellFormed == /\ \A i \in 1..Len(body) : body[i] = "." \/ InSeq(body[i], Digits)
                           /\ Cardinality(dots) <= 1
                           /\ Len(body) > Cardinality(dots)
             whole == IF dots = {} THEN body
                      ELSE SubSeq(body, 1, (CHOOSE i \in dots : TRUE) - 1)
             mag == digitsValue(whole)
         IN  IF ~wellFormed THEN Raise("ValueError")
             ELSE Ok(IF signed /\ Head(s) = "-" THEN 0 - mag ELSE mag)

\* ------------------------------------------------------------------------
\* The SQLite table.  A db is the schema (PRAGMA table_info order), the rows
\* the connection sees (rowid order) and the rows that are committed.
\* ------------------------------------------------------------------------
Column(name, ctype) == [name |-> name, ctype |-> ctype]

ColumnNames(sch) == {sch[i].name : i \in 1..Len(sch)}

ColumnType(sch, name) == sch[CHOOSE i \in 1..Len(sch) : sch[i].name = name].ctype

\* The columns the module creates when it is loaded (lines 83-86, 105-112).
BaseColumns ==
    << Column(produto, "TEXT"), Column(categoria, "TEXT"), Column(rua, "TEXT"),
       Column(nivel, "TEXT"), Column(predio, "TEXT"), Column(qtde, "INTEGER") >>

\* conn.commit()
Commit(db) == [db EXCEPT !.committed = db.rows]

\* ALTER TABLE ADD COLUMN, run with no transaction open: it takes effect at
\* once, existing rows read NULL in the new column, and a column name that
\* the table already has raises OperationalError ("duplicate column name").
AlterAddColumn(db, name, ctype) ==
    IF name \in ColumnNames(db.schema)
    THEN [exc |-> "OperationalError", db |-> db]
    ELSE [exc |-> "none",
          db |-> [schema |-> Append(db.schema, Column(name, ctype)),
                  rows |-> [i \in 1..Len(db.rows) |-> db.rows[i] @@ (name :> Null)],
                  committed |->
                      [i \in 1..Len(db.committed) |-> db.committed[i] @@ (name :> Null)]]]

\* As AddMissing, but a column that exists with another declared type is
\* given the requested type.
RECURSIVE AddMissingRetype(_, _, _)
AddMissingRetype(db, existing, columns) ==
    IF columns = <<>> THEN [exc |-> "none", db |-> db]
    ELSE IF Head(columns)[1] \in existing
    THEN AddMissingRetype(
             [db EXCEPT !.schema =
                 [i \in 1..Len(db.schema) |->
                     IF db.schema[i].name = Head(columns)[1]
                     THEN Column(Head(columns)[1], Head(columns)[2])
                     ELSE db.schema[i]]],
             existing, Tail(columns))
    ELSE LET r == AlterAddColumn(db, Head(columns)[1], Head(columns)[2])
         IN  IF r.exc # "none" THEN r ELSE AddMissingRetype(r.db, existing, Tail(columns))

\* Lines 54-56: the loop over the requested columns
RECURSIVE AddMissing(_, _, _)
AddMissing(db, existing, columns) ==
    IF columns = <<>> THEN [exc |-> "none", db |-> db]
    ELSE IF Head(columns)[1] \in existing THEN AddMissing(db, existing, Tail(columns))
    ELSE LET r == AlterAddColumn(db, Head(columns)[1], Head(columns)[2])
         IN  IF r.exc # "none" THEN r ELSE AddMissing(r.db, existing, Tail(columns))

\* As ensure_table_and_columns, but without reading the columns the table has.
ensure_table_and_columns_blind(db, columns) ==
    LET db1 == Commit(db)
        r == AddMissing(db1, {}, columns)
    IN  IF r.exc # "none" THEN r ELSE [exc |-> "none", db |-> Commit(r.db)]

\* ensure_table_and_columns(conn, TABLE, columns): the table exists, so CREATE
\* TABLE IF NOT EXISTS does nothing; the commit of line 49 ends any open
\* transaction; `existing` is read once, before the loop.
ensure_table_and_columns(db, columns) ==
    LET db1 == Commit(db)
        r == AddMissing(db1, ColumnNames(db1.schema), columns)
    IN  IF r.exc # "none" THEN r ELSE [exc |-> "none", db |-> Commit(r.db)]

\* As get_table_columns, but reading no name.
get_table_columns_none(db) == {}

\* get_table_columns(conn, TABLE)
get_table_columns(db) == ColumnNames(db.schema)

\* As SelectExists, but never finding the row.
SelectExistsNever(db, key) == FALSE

\* SELECT 1 FROM mercadorias WHERE codigo=?  ... fetchone() is not None
SelectExists(db, key) == \E i \in 1..Len(db.rows) : db.rows[i][codigo] = Text(key)

\* What SQLite stores when a Python value is bound to a column of a declared
\* type: None is NULL; a str is text; an int is an integer, which a TEXT
\* column converts to its decimal text.
Stored(ctype, val) ==
    IF val.t \in {"none", "nan"} THEN Null
    ELSE IF val.t = "str" THEN Text(val.s)
    ELSE IF ctype = "TEXT" THEN Text(intToStr(val.n))
    ELSE Integer(val.n)

\* The value of column c in a dict-ordered list of <<column, value>> pairs
\* (the last pair of a column decides), or dflt.
RECURSIVE PairValue(_, _, _)
PairValue(pairs, c, dflt) ==
    IF pairs = <<>> THEN dflt
    ELSE IF pairs[Len(pairs)][1] = c THEN pairs[Len(pairs)][2]
    ELSE PairValue(SubSeq(pairs, 1, Len(pairs) - 1), c, dflt)

HasPair(pairs, c) == \E i \in 1..Len(pairs) : pairs[i][1] = c

\* execute(sql, params): the statement has one "?" per placeholder.
BindingsMatch(placeholders, params) == placeholders = Len(params)

\* INSERT INTO mercadorias (cols) VALUES (?, ...): a new row, NULL in the
\* columns not named; the primary key refuses a codigo the table has.
SqlInsert(db, pairs) ==
    LET row == [c \in ColumnNames(db.schema) |->
                   IF HasPair(pairs, c)
                   THEN Stored(ColumnType(db.schema, c), PairValue(pairs, c, None))
                   ELSE Null]
    IN  IF \E i \in 1..Len(db.rows) : db.rows[i][codigo] = row[codigo]
        THEN [exc |-> "IntegrityError", db |-> db]
        ELSE [exc |-> "none", db |-> [db EXCEPT !.rows = Append(db.rows, row)]]

\* As SqlUpdate, but setting only the columns that hold NULL.
SqlUpdateFillNull(db, pairs, key) ==
    [db EXCEPT !.rows =
        [i \in 1..Len(db.rows) |->
            IF db.rows[i][codigo] # Text(key) THEN db.rows[i]
            ELSE [c \in ColumnNames(db.schema) |->
                     IF HasPair(pairs, c) /\ db.rows[i][c] = Null
                     THEN Stored(ColumnType(db.schema, c), PairValue(pairs, c, None))
                     ELSE db.rows[i][c]]]]

\* UPDATE mercadorias SET c = ?, ... WHERE codigo=?
SqlUpdate(db, pairs, key) ==
    [db EXCEPT !.rows =
        [i \in 1..Len(db.rows) |->
            IF db.rows[i][codigo] # Text(key) THEN db.rows[i]
            ELSE [c \in ColumnNames(db.schema) |->
                     IF HasPair(pairs, c)
                     THEN Stored(ColumnType(db.schema, c), PairValue(pairs, c, None))
                     ELSE db.rows[i][c]]]]

\* dict[k] = v on a dict kept as a list of pairs in insertion order
DictSet(d, k, v) ==
    IF HasPair(d, k)
    THEN [i \in 1..Len(d) |-> IF d[i][1] = k THEN << k, v >> ELSE d[i]]
    ELSE Append(d, << k, v >>)

\* dict.pop(k) for a key that may be absent
DictDrop(d, k) ==
    LET keep == {i \in 1..Len(d) : d[i][1] # k}
        F[i \in 0..Len(d)] ==
            IF i = 0 THEN <<>>
            ELSE IF i \in keep THEN Append(F[i - 1], d[i]) ELSE F[i - 1]
    IN  F[Len(d)]

\* ------------------------------------------------------------------------
\* import_excel_inteligente (lines 116-248)
\* ------------------------------------------------------------------------

\* str(x) of a cell
pystr(val) ==
    IF val.t = "str" THEN val.s
    ELSE IF val.t = "int" THEN intToStr(val.n)
    ELSE IF val.t = "nan" THEN << "n", "a", "n" >>
    ELSE << "N", "o", "n", "e" >>

\* Lines 126-135: colmap, original header -> normalized name, in header
\* order; normalize_colname's exception leaves the function.
RECURSIVE BuildColmap(_, _)
BuildColmap(cols, colmap) ==
    IF cols = <<>> THEN Ok(colmap)
    ELSE LET orig == Head(cols)
             low == lower(orig)
         IN  IF FriendlyHas(low)
             THEN BuildColmap(Tail(cols), DictSet(colmap, orig, FriendlyGet(low)))
             ELSE LET r == normalize_colname(orig)
                  IN  IF r.exc # "none" THEN r
                      ELSE BuildColmap(Tail(cols), DictSet(colmap, orig, r.val))

\* Line 139: the original headers whose normalized name is "codigo"
codigo_cols(colmap) ==
    LET F[i \in 0..Len(colmap)] ==
            IF i = 0 THEN <<>>
            ELSE IF colmap[i][2] = codigo THEN Append(F[i - 1], colmap[i][1]) ELSE F[i - 1]
    IN  F[Len(colmap)]

\* Lines 146-151
columns_to_ensure(colmap) ==
    [i \in 1..Len(colmap) |->
        << colmap[i][2], IF colmap[i][2] = qtde THEN "INTEGER" ELSE "TEXT" >>]

\* row.get(orig): the cell under header orig (cols are the stripped headers)
RowGet(cols, row, orig) == row[IndexOf(orig, cols)]

\* Line 164: the row has no codigo
KeyMissing(val) == val.t \in {"none", "nan"} \/ strip(pystr(val)) = <<>>

\* As CellAbsent, but keeping a str that is empty once stripped.
CellAbsentBlankKept(val) == val.t \in {"nan", "none"}

\* Lines 179-185: the cell is NaN, None or a str that is empty once stripped

CellAbsent(val) == val.t \in {"nan", "none"} \/ (val.t = "str" /\ strip(val.s) = <<>>)

\* Lines 175-193: values, normalized name -> value, without "codigo"
RECURSIVE RowValues(_, _, _, _)
RowValues(colmap, cols, row, values) ==
    IF colmap = <<>> THEN DictDrop(values, codigo)
    ELSE LET norm == Head(colmap)[2]
             val == RowGet(cols, row, Head(colmap)[1])
         IN  IF CellAbsent(val) THEN RowValues(Tail(colmap), cols, row, values)
             ELSE IF val.t = "str"
             THEN RowValues(Tail(colmap), cols, row, DictSet(values, norm, Str(strip(val.s))))
             ELSE RowValues(Tail(colmap), cols, row, DictSet(values, norm, val))

\* Lines 200-216: set_parts and params of the UPDATE.  The column is added to
\* set_parts before qtde is converted; a failed conversion skips the
\* parameter only.
RECURSIVE UpdateParts(_, _, _, _)
UpdateParts(values, db_cols, set_parts, params) ==
    IF values = <<>> THEN [set_parts |-> set_parts, params |-> params]
    ELSE LET colname == Head(values)[1]
             val == Head(values)[2]
         IN  IF colname \notin db_cols
             THEN UpdateParts(Tail(values), db_cols, set_parts, params)
             ELSE IF colname = qtde
             THEN LET v == int_float(val)
                  IN  IF v.exc # "none"
                      THEN UpdateParts(Tail(values), db_cols, Append(set_parts, colname), params)
                      ELSE UpdateParts(Tail(values), db_cols, Append(set_parts, colname),
                                       Append(params, Num(v.val)))
             ELSE UpdateParts(Tail(values), db_cols, Append(set_parts, colname),
                              Append(params, val))

\* Lines 226-239: insert_cols and insert_vals after "codigo", as pairs; a
\* failed conversion of qtde inserts None.
RECURSIVE InsertPairs(_, _, _)
InsertPairs(values, db_cols, pairs) ==
    IF values = <<>> THEN pairs
    ELSE LET colname == Head(values)[1]
             val == Head(values)[2]
         IN  IF colname \notin db_cols THEN InsertPairs(Tail(values), db_cols, pairs)
             ELSE IF colname = qtde
             THEN LET v == int_float(val)
                  IN  InsertPairs(Tail(values), db_cols,
                                  Append(pairs, << colname,
                                                   IF v.exc # "none" THEN None ELSE Num(v.val) >>))
             ELSE InsertPairs(Tail(values), db_cols, Append(pairs, << colname, val >>))

\* Lines 195-223: the row of a codigo the table has
UpdateRow(db, values, db_cols, codigo_val) ==
    IF values = <<>> THEN [exc |-> "none", outcome |-> "ignored", db |-> db]
    ELSE LET parts == UpdateParts(values, db_cols, <<>>, <<>>)
             params == Append(parts.params, Str(codigo_val))
         IN  IF parts.set_parts = <<>>
             THEN [exc |-> "none", outcome |-> "ignored", db |-> db]
             ELSE IF ~BindingsMatch(Len(parts.set_parts) + 1, params)
             THEN [exc |-> "ProgrammingError", outcome |-> "raised", db |-> db]
             ELSE [exc |-> "none", outcome |-> "updated",
                   db |-> SqlUpdate(db,
                                    [i \in 1..Len(parts.set_parts) |->
                                        << parts.set_parts[i], params[i] >>],
                                    codigo_val)]

\* Lines 224-245: the row of a codigo the table does not have
InsertRow(db, values, db_cols, codigo_val) ==
    LET r == SqlInsert(db, InsertPairs(values, db_cols, << << codigo, Str(codigo_val) >> >>))
    IN  IF r.exc # "none" THEN [exc |-> r.exc, outcome |-> "raised", db |-> db]
        ELSE [exc |-> "none", outcome |-> "inserted", db |-> r.db]

\* Lines 162-245: one iteration of the loop over the rows
ImportRow(db, cols, colmap, codigo_col, db_cols, row) ==
    LET codigo_cell == RowGet(cols, row, codigo_col)
    IN  IF KeyMissing(codigo_cell)
        THEN [exc |-> "none", outcome |-> "ignored", db |-> db]
        ELSE LET codigo_val == strip(pystr(codigo_cell))
                 values == RowValues(colmap, cols, row, <<>>)
             IN  IF SelectExists(db, codigo_val)
                 THEN UpdateRow(db, values, db_cols, codigo_val)
                 ELSE InsertRow(db, values, db_cols, codigo_val)

\* As CountRow, but not counting an ignored row.
CountRowIgnoredLost(counters, outcome) ==
    [counters EXCEPT ![outcome] = IF outcome = "ignored" THEN @ ELSE @ + 1]

\* Lines 166, 198, 218, 223, 245: the counter of the row's outcome
CountRow(counters, outcome) == [counters EXCEPT ![outcome] = @ + 1]

\* ------------------------------------------------------------------------
\* update_single_record (lines 254-272)
\* ------------------------------------------------------------------------
RECURSIVE KnownPairs(_, _)
KnownPairs(updates, db_cols) ==
    IF updates = <<>> THEN <<>>
    ELSE IF Head(updates)[1] \notin db_cols THEN KnownPairs(Tail(updates), db_cols)
    ELSE << Head(updates) >> \o KnownPairs(Tail(updates), db_cols)

update_single_record(db, key, updates) ==
    IF updates = <<>> THEN [ret |-> FALSE, db |-> db]
    ELSE LET pairs == KnownPairs(updates, get_table_columns(db))
         IN  IF pairs = <<>> THEN [ret |-> FALSE, db |-> db]
             ELSE [ret |-> TRUE, db |-> Commit(SqlUpdate(db, pairs, key))]

\* ------------------------------------------------------------------------
\* The "Cadastrar manualmente" handler (lines 297-359)
\* ------------------------------------------------------------------------

\* As FormUpdates, but with the codigo of the form among the updates.
FormUpdatesWithKey(form) ==
    LET add(d, name, v) == IF v # <<>> THEN DictSet(d, name, Str(v)) ELSE d
        u0 == add(<<>>, codigo, form.codigo)
        u1 == add(u0, produto, form.produto)
        u2 == add(u1, categoria, form.categoria)
        u3 == add(u2, rua, form.rua)
        u4 == add(u3, nivel, form.nivel)
        u5 == add(u4, predio, form.predio)
    IN  DictSet(u5, qtde, Num(form.qtde))

\* Lines 309-315, 343-349: a form field left empty is not part of updates
\* (a Python str is true unless it is empty); qtde always is.
FormUpdates(form) ==
    LET add(d, name, v) == IF v # <<>> THEN DictSet(d, name, Str(v)) ELSE d
        u1 == add(<<>>, produto, form.produto)
        u2 == add(u1, categoria, form.categoria)
        u3 == add(u2, rua, form.rua)
        u4 == add(u3, nivel, form.nivel)
        u5 == add(u4, predio, form.predio)
    IN  DictSet(u5, qtde, Num(form.qtde))

\* Lines 322-323, 356-357: the columns and values of the manual INSERT
FormInsertPairs(form) ==
    << << codigo, Str(strip(form.codigo)) >>, << produto, Str(form.produto) >>,
       << categoria, Str(form.categoria) >>, << rua, Str(form.rua) >>,
       << nivel, Str(form.nivel) >>, << predio, Str(form.predio) >>,
       << qtde, Num(form.qtde) >> >>

OtherValue(form) == IF form.other_value # <<>> THEN Str(form.other_value) ELSE None

\* Lines 301-337: the form names an extra field
ManualWithExtra(db, form) ==
    LET n == normalize_colname(form.other_label)
    IN  IF n.exc # "none" THEN [exc |-> n.exc, ui |-> <<>>, db |-> db]
        ELSE LET norm == n.val
                 e1 == ensure_table_and_columns(db, << << norm, "TEXT" >> >>)
             IN  IF e1.exc # "none" THEN [exc |-> e1.exc, ui |-> <<>>, db |-> e1.db]
                 ELSE IF SelectExists(e1.db, strip(form.codigo))
                 THEN [exc |-> "none", ui |-> << "success" >>,
                       db |-> update_single_record(
                                  e1.db, strip(form.codigo),
                                  DictSet(FormUpdates(form), norm, OtherValue(form))).db]
                 ELSE LET e2 == ensure_table_and_columns(e1.db, << << norm, "TEXT" >> >>)
                          pairs == KnownPairs(
                                       Append(FormInsertPairs(form), << norm, OtherValue(form) >>),
                                       get_table_columns(e2.db))
                          r == SqlInsert(e2.db, pairs)
                      IN  IF r.exc # "none" THEN [exc |-> r.exc, ui |-> <<>>, db |-> e2.db]
                          ELSE [exc |-> "none", ui |-> << "success" >>, db |-> Commit(r.db)]

\* Lines 338-359: the form names no extra field
ManualPlain(db, form) ==
    IF SelectExists(db, strip(form.codigo))
    THEN [exc |-> "none", ui |-> << "success" >>,
          db |-> update_single_record(db, strip(form.codigo), FormUpdates(form)).db]
    ELSE LET e == ensure_table_and_columns(
                      db, [i \in 1..Len(BaseColumns) |->
                              << BaseColumns[i].name, BaseColumns[i].ctype >>])
         IN  IF e.exc # "none" THEN [exc |-> e.exc, ui |-> <<>>, db |-> e.db]
             ELSE LET r == SqlInsert(e.db, FormInsertPairs(form))
                  IN  IF r.exc # "none" THEN [exc |-> r.exc, ui |-> <<>>, db |-> e.db]
                      ELSE [exc |-> "none", ui |-> << "success" >>, db |-> Commit(r.db)]

\* Lines 297-359
ManualEntryHandler(db, form) ==
    IF strip(form.codigo) = <<>> THEN [exc |-> "none", ui |-> << "error" >>, db |-> db]
    ELSE IF strip(form.other_label) # <<>> THEN ManualWithExtra(db, form)
    ELSE ManualPlain(db, form)

\* ------------------------------------------------------------------------
\* The "Atualizar este registro" form of a listed record (lines 412-424)
\* ------------------------------------------------------------------------

\* As EditUpdates, but without the fields the form leaves empty.
EditUpdatesSkipBlank(form) ==
    LET add(d, name, v) == IF v # <<>> THEN DictSet(d, name, Str(v)) ELSE d
        u1 == add(<<>>, produto, form.produto)
        u2 == add(u1, categoria, form.categoria)
        u3 == add(u2, rua, form.rua)
        u4 == add(u3, nivel, form.nivel)
        u5 == add(u4, predio, form.predio)
    IN  DictSet(u5, qtde, Num(form.qtde))

\* Lines 413-420: every field of the form, empty or not
EditUpdates(form) ==
    << << produto, Str(form.produto) >>, << categoria, Str(form.categoria) >>,
       << rua, Str(form.rua) >>, << nivel, Str(form.nivel) >>,
       << predio, Str(form.predio) >>, << qtde, Num(form.qtde) >> >>

\* Lines 412-424
EditHandler(db, key, form) == update_single_record(db, key, EditUpdates(form))

\* ------------------------------------------------------------------------
\* Inputs of the model: headers, cells, forms and column lists
\* ------------------------------------------------------------------------
A1 == << "A", "1" >>
A2 == << "A", "2" >>
Bolt == << "B", "o", "l", "t" >>
zona == << "z", "o", "n", "a" >>
lote == << "l", "o", "t", "e" >>

HCodigo == << "C", "oac", "d", "i", "g", "o" >>
HProduto == << "P", "r", "o", "d", "u", "t", "o", " " >>
HcodigoPlain == codigo
HCODIGO == << "C", "Oac", "D", "I", "G", "O" >>
HQtde == qtde
HQuantidade == << "Q", "u", "a", "n", "t", "i", "d", "a", "d", "e" >>
HZona == << "Z", "o", "n", "a" >>

\* The header rows of the sheets.  pandas gives every column its own label;
\* the lists here also stay distinct once stripped (line 126).
HeaderLists ==
    { << HCodigo, HProduto, HQtde >>,
      << HQtde, HCodigo, HQuantidade >>,
      << HProduto, HQtde >>,
      << HCodigo, HZona >>,
      << HcodigoPlain >>,
      << HCODIGO >> }

KeyCells == { Str(A1), Str(<< " ", "A", "1", " " >>), Str(A2), Str(<< " " >>), NaN }
ProdutoCells == { NaN, Str(<< " " >>), Str(Bolt) }
QtdeCells == { NaN, Str(<< "7" >>), Num(3), Str(<< "x" >>) }
QuantidadeCells == { NaN, Str(<< "3", ".", "9" >>), Str(<< "x" >>) }

\* The cells a sheet has under a (stripped) header
CellsUnder(header) ==
    IF header \in {HCodigo, HcodigoPlain, HCODIGO} THEN KeyCells
    ELSE IF header = HQtde THEN QtdeCells
    ELSE IF header = HQuantidade THEN QuantidadeCells
    ELSE ProdutoCells

RECURSIVE SheetRows(_)
SheetRows(headers) ==
    IF headers = <<>> THEN { <<>> }
    ELSE {<< c >> \o r : c \in CellsUnder(Head(headers)), r \in SheetRows(Tail(headers))}

Forms ==
    [codigo : {A1, << "A", "2", " " >>, << " " >>},
     produto : {<<>>, Bolt},
     categoria : {<<>>},
     rua : {<<>>},
     nivel : {<<>>},
     predio : {<<>>},
     qtde : {0, 7},
     other_label : {<<>>, HZona, HCodigo},
     other_value : {<<>>, Bolt}]

\* What the user leaves in the edit form of a record
EditForms ==
    [produto : {<<>>, Bolt},
     categoria : {<<>>},
     rua : {<<>>},
     nivel : {<<>>},
     predio : {<<>>},
     qtde : {0, 7}]

\* The updates of direct calls of update_single_record
UpdateDicts ==
    { <<>>,
      << << produto, Str(Bolt) >> >>,
      << << lote, Str(Bolt) >> >>,
      << << produto, Str(Bolt) >>, << lote, Str(Bolt) >> >> }

EnsurePairs ==
    { << qtde, "TEXT" >>, << qtde, "INTEGER" >>, << zona, "TEXT" >>, << lote, "TEXT" >> }

RECURSIVE SeqsUpTo(_, _)
SeqsUpTo(S, n) ==
    IF n = 0 THEN { <<>> }
    ELSE LET shorter == SeqsUpTo(S, n - 1)
         IN  shorter \cup {Append(q, x) : q \in {t \in shorter : Len(t) = n - 1}, x \in S}

EnsureLists == SeqsUpTo(EnsurePairs, MaxEnsure) \ { <<>> }

NormChars == { " ", "A", "a", "Eac", "!", "_", "1" }
NormInputs == SeqsUpTo(NormChars, MaxNameLen)

\* ------------------------------------------------------------------------
\* State
\* ------------------------------------------------------------------------
VARIABLES
    schema,     \* the table's columns
    rows,       \* the rows as the connection sees them
    committed,  \* the rows that are committed
    pc,         \* "idle", or "rows" inside the loop of the import
    imp,        \* the locals of the running import
    out,        \* the outcome of the last handler
    nops,       \* handlers started
    pre,        \* the db when the last handler started
    hist,       \* what the rows of the running or last import carried
    scen,       \* how far the run has followed the end-to-end scenario
    normIn,     \* the argument of a call of normalize_colname
    normOut,    \* its outcome
    normTwice,  \* the outcome of normalize_colname on that outcome
    batch       \* the sheet that is imported twice (when one is)

dbVars == << schema, rows, committed >>
normVars == << normIn, normOut, normTwice >>
vars ==
    << schema, rows, committed, pc, imp, out, nops, pre, hist, scen,
       normIn, normOut, normTwice, batch >>

DB == [schema |-> schema, rows |-> rows, committed |-> committed]

SetDB(db) == schema' = db.schema /\ rows' = db.rows /\ committed' = db.committed

ZeroCounters == [inserted |-> 0, updated |-> 0, ignored |-> 0, raised |-> 0]

NoImport ==
    [cols |-> <<>>, colmap |-> <<>>, codigo_col |-> <<>>, db_cols |-> {},
     counters |-> ZeroCounters]

\* op is the handler, arg what it was given, exc the exception that left it
\* ("none" when it returned), ret what the function returned, ui the
\* st.error and st.success messages shown
Outcome(op, arg, exc, ret, ui) ==
    [op |-> op, arg |-> arg, exc |-> exc, ret |-> ret, ui |-> ui]

\* Lines 79-86 and 105-112: the table with its base columns, no rows.
InitDB ==
    [schema |-> << Column(codigo, "TEXT") >> \o BaseColumns, rows |-> <<>>, committed |-> <<>>]

\* ------------------------------------------------------------------------
\* What a row carries, in the words of the specification
\* ------------------------------------------------------------------------
Present(cell) == cell.t \notin {"nan", "none"} /\ (cell.t = "str" => strip(cell.s) # <<>>)

Keys(rws) == {rws[i][codigo].s : i \in 1..Len(rws)}

Record(rws, key) == rws[CHOOSE i \in 1..Len(rws) : rws[i][codigo].s = key]

FieldsOf(fields) == {fields[i] : i \in 1..Len(fields)}

KeyIndex(fields) ==
    CHOOSE i \in 1..Len(fields) : fields[i] = codigo /\ \A j \in 1..(i - 1) : fields[j] # codigo

Carries(fields, row, f) == \E i \in 1..Len(fields) : fields[i] = f /\ Present(row[i])

\* The last present cell of field f in the row
Carried(fields, row, f) ==
    row[CHOOSE i \in 1..Len(fields) :
            /\ fields[i] = f /\ Present(row[i])
            /\ \A j \in (i + 1)..Len(fields) : ~(fields[j] = f /\ Present(row[j]))]

QtyUnparseable(fields, row) ==
    Carries(fields, row, qtde) /\ int_float(Carried(fields, row, qtde)).exc # "none"

\* The fields of the row's change-set, and the value each is to store
ChangeSet(fields, row) ==
    {f \in FieldsOf(fields) \ {codigo} :
        Carries(fields, row, f) /\ (f = qtde => ~QtyUnparseable(fields, row))}

ChangeValue(fields, row, f) ==
    IF f = qtde THEN Integer(int_float(Carried(fields, row, f)).val)
    ELSE Text(strip(pystr(Carried(fields, row, f))))

\* What is remembered of the last row of the import
NoRow ==
    [blank |-> TRUE, key |-> <<>>, existed |-> FALSE, qtyBad |-> FALSE,
     carries |-> {}, changes |-> <<>>, outcome |-> "none"]

RowSummary(fields, row, keysBefore, outcome) ==
    LET blank == ~Present(row[KeyIndex(fields)])
        key == IF blank THEN <<>> ELSE strip(pystr(row[KeyIndex(fields)]))
    IN  [blank |-> blank,
         key |-> key,
         existed |-> ~blank /\ key \in keysBefore,
         qtyBad |-> QtyUnparseable(fields, row),
         carries |-> {f \in FieldsOf(fields) \ {codigo} : Carries(fields, row, f)},
         changes |-> [f \in ChangeSet(fields, row) |-> ChangeValue(fields, row, f)],
         outcome |-> outcome]

NoHist ==
    [fields |-> <<>>, n |-> 0, carried |-> {}, seen |-> {},
     expUpdated |-> 0, expSkipped |-> 0, last |-> NoRow, before |-> <<>>,
     expect |-> <<>>]

HistAfter(h, last, before) ==
    [h EXCEPT
        !.n = @ + 1,
        !.carried = @ \cup {<< last.key, f >> : f \in IF last.blank THEN {} ELSE last.carries},
        !.seen = IF last.blank THEN @ ELSE @ \cup {last.key},
        !.expUpdated = IF last.existed /\ DOMAIN last.changes # {} THEN @ + 1 ELSE @,
        !.expSkipped = IF last.blank \/ (last.existed /\ DOMAIN last.changes = {})
                       THEN @ + 1 ELSE @,
        !.last = last,
        !.before = before,
        !.expect =
            IF last.blank THEN @
            ELSE [p \in DOMAIN @ \cup {<< last.key, f >> : f \in DOMAIN last.changes} |->
                     IF p[1] = last.key /\ p[2] \in DOMAIN last.changes
                     THEN last.changes[p[2]]
                     ELSE @[p]]]

\* The end-to-end scenario of the specification: from the empty store, the
\* sheet [{A1, Bolt}, {A2, 7}] and then the sheet [{A1, 3}, {A2, blank}].
ScenHeaders == << HCodigo, HProduto, HQtde >>

ScenRows ==
    << << Str(A1), Str(Bolt), NaN >>, << Str(A2), NaN, Str(<< "7" >>) >>,
       << Str(A1), NaN, Num(3) >>, << Str(A2), Str(<< " " >>), NaN >> >>

ScenStart(s, headers) == IF s \in {0, 4} /\ headers = ScenHeaders THEN s + 1 ELSE 9

ScenRow(s, row) ==
    IF s \in {1, 2} /\ row = ScenRows[s] THEN s + 1
    ELSE IF s \in {5, 6} /\ row = ScenRows[s - 2] THEN s + 1
    ELSE 9

ScenFinish(s) == IF s \in {3, 7} THEN s + 1 ELSE 9

\* ------------------------------------------------------------------------
\* Initial state
\* ------------------------------------------------------------------------
InitStore ==
    /\ schema = InitDB.schema
    /\ rows = InitDB.rows
    /\ committed = InitDB.committed
    /\ pc = "idle"
    /\ imp = NoImport
    /\ out = Outcome("none", <<>>, "none", <<>>, <<>>)
    /\ nops = 0
    /\ pre = InitDB
    /\ hist = NoHist
    /\ scen = 0

NoCall == [exc |-> "none", val |-> << "-" >>]

NoBatch == [headers |-> <<>>, rows |-> <<>>]

Init ==
    /\ InitStore
    /\ batch = NoBatch
    /\ normIn = <<>>
    /\ normOut = NoCall
    /\ normTwice = NoCall

\* ------------------------------------------------------------------------
\* Actions
\* ------------------------------------------------------------------------

\* Lines 145-160: the columns of the sheet are ensured, then the loop starts
ImportEnsured(e, headers, cols, colmap) ==
    /\ SetDB(e.db)
    /\ hist' = [NoHist EXCEPT !.fields = [i \in 1..Len(colmap) |-> colmap[i][2]]]
    /\ IF e.exc # "none"
       THEN /\ out' = Outcome("import", headers, e.exc, <<>>, <<>>)
            /\ UNCHANGED << pc, imp >>
       ELSE /\ out' = Outcome("import", headers, "none", <<>>, <<>>)
            /\ pc' = "rows"
            /\ imp' = [cols |-> cols, colmap |-> colmap,
                       codigo_col |-> codigo_cols(colmap)[1],
                       db_cols |-> get_table_columns(e.db),
                       counters |-> ZeroCounters]

\* As ImportMapped, but ensuring the columns before looking for codigo.
ImportMappedEnsureFirst(cm, headers, cols) ==
    IF cm.exc # "none"
    THEN /\ out' = Outcome("import", headers, cm.exc, <<>>, <<>>)
         /\ UNCHANGED << dbVars, pc, imp >>
         /\ hist' = NoHist
    ELSE IF codigo_cols(cm.val) = <<>>
    THEN /\ out' = Outcome("import", headers, "none", << 0, 0, 0 >>, << "error", "success" >>)
         /\ SetDB(ensure_table_and_columns(DB, columns_to_ensure(cm.val)).db)
         /\ UNCHANGED << pc, imp >>
         /\ hist' = NoHist
    ELSE ImportEnsured(ensure_table_and_columns(DB, columns_to_ensure(cm.val)),
                       headers, cols, cm.val)

\* Lines 126-153.  Without a codigo column the function reports st.error and
\* returns (0,0,0), and its caller reports st.success (line 368).
ImportMapped(cm, headers, cols) ==
    IF cm.exc # "none"
    THEN /\ out' = Outcome("import", headers, cm.exc, <<>>, <<>>)
         /\ UNCHANGED << dbVars, pc, imp >>
         /\ hist' = NoHist
    ELSE IF codigo_cols(cm.val) = <<>>
    THEN /\ out' = Outcome("import", headers, "none", << 0, 0, 0 >>, << "error", "success" >>)
         /\ UNCHANGED << dbVars, pc, imp >>
         /\ hist' = NoHist
    ELSE ImportEnsured(ensure_table_and_columns(DB, columns_to_ensure(cm.val)),
                       headers, cols, cm.val)

StripAll(headers) == [i \in 1..Len(headers) |-> strip(headers[i])]

\* The upload handler up to the loop (lines 364-367, 124-160)
StartImport(headers) ==
    /\ pc = "idle"
    /\ nops < MaxOps
    /\ nops' = nops + 1
    /\ pre' = DB
    /\ scen' = ScenStart(scen, headers)
    /\ UNCHANGED << normVars, batch >>
    /\ ImportMapped(BuildColmap(StripAll(headers), <<>>), headers, StripAll(headers))

RowDone(r, last) ==
    /\ SetDB(r.db)
    /\ hist' = HistAfter(hist, last, rows)
    /\ IF r.exc # "none"
       THEN /\ pc' = "idle"
            /\ imp' = NoImport
            /\ out' = [out EXCEPT !.exc = r.exc]
       ELSE /\ pc' = "rows"
            /\ imp' = [imp EXCEPT !.counters = CountRow(@, r.outcome)]
            /\ UNCHANGED out

RowOutcome(r, row) == RowDone(r, RowSummary(hist.fields, row, Keys(rows), r.outcome))

\* One iteration of the loop (lines 162-245); an exception leaves the
\* handler with the transaction open.
ImportRowStep(row) ==
    /\ pc = "rows"
    /\ hist.n < MaxRows
    /\ scen' = ScenRow(scen, row)
    /\ UNCHANGED << nops, pre, normVars, batch >>
    /\ RowOutcome(ImportRow(DB, imp.cols, imp.colmap, imp.codigo_col, imp.db_cols, row), row)

\* The end of the loop: lines 247-248, and the report of line 368.
FinishImport ==
    /\ pc = "rows"
    /\ SetDB(Commit(DB))
    /\ pc' = "idle"
    /\ imp' = NoImport
    /\ out' = [out EXCEPT
                   !.ret = << imp.counters.inserted, imp.counters.updated,
                              imp.counters.ignored >>,
                   !.ui = << "success" >>]
    /\ scen' = ScenFinish(scen)
    /\ UNCHANGED << nops, pre, hist, normVars, batch >>

ManualDone(r, form) ==
    /\ SetDB(r.db)
    /\ out' = Outcome("manual", form, r.exc, <<>>, r.ui)

\* The "Cadastrar manualmente" button (lines 297-359)
ManualEntry(form) ==
    /\ pc = "idle"
    /\ nops < MaxOps
    /\ nops' = nops + 1
    /\ pre' = DB
    /\ hist' = NoHist
    /\ scen' = 9
    /\ ManualDone(ManualEntryHandler(DB, form), form)
    /\ UNCHANGED << pc, imp, normVars, batch >>

EnsureDone(r, columns) ==
    /\ SetDB(r.db)
    /\ out' = Outcome("ensure", columns, r.exc, <<>>, <<>>)

\* A call of ensure_table_and_columns (lines 39-57)
EnsureFields(columns) ==
    /\ pc = "idle"
    /\ nops < MaxOps
    /\ nops' = nops + 1
    /\ pre' = DB
    /\ hist' = NoHist
    /\ scen' = 9
    /\ EnsureDone(ensure_table_and_columns(DB, columns), columns)
    /\ UNCHANGED << pc, imp, normVars, batch >>

EditDone(r, key, form) ==
    /\ SetDB(r.db)
    /\ out' = Outcome("edit", << key, form >>, "none", << r.ret >>, << "success" >>)

\* The "Atualizar este registro" button of the form of a listed record
\* (lines 390-424)
EditRecord(key, form) ==
    /\ pc = "idle"
    /\ nops < MaxOps
    /\ key \in Keys(rows)
    /\ nops' = nops + 1
    /\ pre' = DB
    /\ hist' = NoHist
    /\ scen' = 9
    /\ EditDone(EditHandler(DB, key, form), key, form)
    /\ UNCHANGED << pc, imp, normVars, batch >>

UpdateDone(r, key, updates) ==
    /\ SetDB(r.db)
    /\ out' = Outcome("update", << key, updates >>, "none", << r.ret >>, <<>>)

\* A call of update_single_record for a record of the table (lines 254-272)
UpdateFields(key, updates) ==
    /\ pc = "idle"
    /\ nops < MaxOps
    /\ key \in Keys(rows)
    /\ nops' = nops + 1
    /\ pre' = DB
    /\ hist' = NoHist
    /\ scen' = 9
    /\ UpdateDone(update_single_record(DB, key, updates), key, updates)
    /\ UNCHANGED << pc, imp, normVars, batch >>

\* The script runs again (lines 79-86, 105-112): a new connection sees the
\* committed rows only; the base columns are there already.
Rerun ==
    /\ pc = "idle"
    /\ nops < MaxOps
    /\ nops' = nops + 1
    /\ rows' = committed
    /\ pre' = [DB EXCEPT !.rows = committed]
    /\ hist' = NoHist
    /\ scen' = 9
    /\ out' = Outcome("rerun", <<>>, "none", <<>>, <<>>)
    /\ UNCHANGED << schema, committed, pc, imp, normVars, batch >>

Next ==
    \/ \E headers \in HeaderLists : StartImport(headers)
    \/ \E row \in SheetRows(imp.cols) : ImportRowStep(row)
    \/ FinishImport
    \/ \E form \in Forms : ManualEntry(form)
    \/ \E columns \in EnsureLists : EnsureFields(columns)
    \/ \E key \in Keys(rows), form \in EditForms : EditRecord(key, form)
    \/ \E key \in Keys(rows), updates \in UpdateDicts : UpdateFields(key, updates)
    \/ Rerun

Spec == Init /\ [][Next]_vars

\* ------------------------------------------------------------------------
\* normalize_colname on its own: every name of NormInputs, normalized once
\* and, when that returns, once more
\* ------------------------------------------------------------------------
InitNorm ==
    /\ InitStore
    /\ batch = NoBatch
    /\ normIn \in NormInputs
    /\ normOut = NoCall
    /\ normTwice = NoCall

Normalized(r) ==
    /\ normOut' = r
    /\ normTwice' = IF r.exc = "none" THEN normalize_colname(r.val) ELSE r

NormalizeCall ==
    /\ normOut = NoCall
    /\ Normalized(normalize_colname(normIn))
    /\ UNCHANGED << schema, rows, committed, pc, imp, out, nops, pre, hist, scen, normIn,
                    batch >>

NextNorm == NormalizeCall

SpecNorm == InitNorm /\ [][NextNorm]_vars

\* ------------------------------------------------------------------------
\* One sheet imported twice: the store is empty or holds one record entered
\* by hand; the upload handler runs on the sheet and, when that import
\* returned, runs on the same sheet again
\* ------------------------------------------------------------------------
ReplayHeaders == << HCodigo, HProduto, HQtde >>

ReplayBatches ==
    {[headers |-> ReplayHeaders, rows |-> rs] :
        rs \in SeqsUpTo(SheetRows(StripAll(ReplayHeaders)), MaxRows)}

SeedStores ==
    {InitDB} \cup
    {ManualEntryHandler(InitDB, f).db :
        f \in {g \in Forms : g.codigo = A1 /\ g.produto = Bolt /\ g.other_label = <<>>}}

InitTwice ==
    /\ batch \in ReplayBatches
    /\ \E db \in SeedStores :
           /\ schema = db.schema
           /\ rows = db.rows
           /\ committed = db.committed
           /\ pre = db
    /\ pc = "idle"
    /\ imp = NoImport
    /\ out = Outcome("none", <<>>, "none", <<>>, <<>>)
    /\ nops = 0
    /\ hist = NoHist
    /\ scen = 9
    /\ normIn = <<>>
    /\ normOut = NoCall
    /\ normTwice = NoCall

ReplayStart ==
    /\ out.exc = "none"
    /\ StartImport(batch.headers)

ReplayRow ==
    /\ hist.n < Len(batch.rows)
    /\ ImportRowStep(batch.rows[hist.n + 1])

ReplayFinish ==
    /\ hist.n = Len(batch.rows)
    /\ FinishImport

NextTwice == ReplayStart \/ ReplayRow \/ ReplayFinish

SpecTwice == InitTwice /\ [][NextTwice]_vars

\* ------------------------------------------------------------------------
\* Properties
\* ------------------------------------------------------------------------
ImportRan == out.op = "import"
ImportReturned == out.op = "import" /\ pc = "idle" /\ out.exc = "none"
LastKey == hist.last.key
RowSeen == ImportRan /\ hist.n > 0

\* A header maps to the key field: through the synonym table, or else
\* through normalize_colname
MapsToKey(header) ==
    IF FriendlyHas(lower(strip(header))) THEN FriendlyGet(lower(strip(header))) = codigo
    ELSE normalize_colname(strip(header)) = Ok(codigo)

HasKeyHeader(headers) == \E i \in 1..Len(headers) : MapsToKey(headers[i])

\* C1: during and after an import, every record that was in the store when
\* the import started is still there, and each of its fields for which no
\* row of the sheet with its key carried a present value holds the value it
\* held when the import started.
C1_NonDestructiveImport ==
    ImportRan =>
        \A k \in Keys(pre.rows) :
            /\ k \in Keys(rows)
            /\ \A f \in ColumnNames(pre.schema) :
                   << k, f >> \notin hist.carried
                       => Record(rows, k)[f] = Record(pre.rows, k)[f]

\* An import returned after a row of an existing key that carried a value
\* for one field and none for another field, which held a value.
C1_Witness ==
    /\ ImportReturned
    /\ \E k \in Keys(pre.rows) \cap hist.seen :
           \E f, g \in FieldsOf(hist.fields) \ {codigo} :
               /\ << k, f >> \notin hist.carried
               /\ << k, g >> \in hist.carried
               /\ Record(pre.rows, k)[f] # Null
               /\ Record(rows, k)[f] = Record(pre.rows, k)[f]
               /\ Record(rows, k)[g] # Record(pre.rows, k)[g]

\* C2: a row with a key and a quantity cell that is present but is no number
\* does not raise; the stored quantity is what it was (an existing key) or
\* NULL (a new key), and the other fields of its change-set are stored.
C2_QtyFailureNeverFailsRow ==
    (RowSeen /\ ~hist.last.blank /\ hist.last.qtyBad) =>
        /\ out.exc = "none"
        /\ LastKey \in Keys(rows)
        /\ Record(rows, LastKey)[qtde] =
               IF hist.last.existed THEN Record(hist.before, LastKey)[qtde] ELSE Null
        /\ \A f \in DOMAIN hist.last.changes :
               Record(rows, LastKey)[f] = hist.last.changes[f]

\* C3: an import of a sheet none of whose headers maps to the key field
\* leaves the schema, the rows and the committed rows as they were.
C3_MissingKeyLeavesStoreUntouched ==
    (ImportRan /\ ~HasKeyHeader(out.arg)) => DB = pre

\* Such an import on a store that has rows, some of them not committed.
C3_Witness ==
    /\ ImportRan
    /\ ~HasKeyHeader(out.arg)
    /\ out.ret = << 0, 0, 0 >>
    /\ rows # <<>>
    /\ rows # committed
    /\ DB = pre

C5_EmptyChangeSetIsSkip ==
    (RowSeen /\ hist.last.existed /\ DOMAIN hist.last.changes = {}) =>
        /\ hist.last.outcome = "ignored"
        /\ out.exc = "none"
        /\ rows = hist.before

\* C6: no two rows, as seen or committed, have one codigo, and no handler was
\* left by the primary key refusing an INSERT.
NoDuplicateKey(rws) == \A i, j \in 1..Len(rws) : rws[i][codigo] = rws[j][codigo] => i = j

C6_KeyUniqueness ==
    /\ NoDuplicateKey(rows)
    /\ NoDuplicateKey(committed)
    /\ out.exc # "IntegrityError"

\* A sheet had a second row of a key that its first row inserted.
C6_Witness ==
    /\ RowSeen
    /\ hist.n = 2
    /\ hist.last.existed
    /\ LastKey \notin Keys(pre.rows)
    /\ Cardinality({i \in 1..Len(rows) : rows[i][codigo] = Text(LastKey)}) = 1
    /\ out.exc = "none"

\* C7: every step keeps every column of the schema, with its declared type.
ColumnSet(sch) == {sch[i] : i \in 1..Len(sch)}

C7_SchemaMonotonic == [][ColumnSet(schema) \subseteq ColumnSet(schema')]_vars

\* The schema has a column it did not start with.
C7_Witness == ColumnSet(schema) # ColumnSet(InitDB.schema) /\ out.op = "ensure"

\* C8: a call of ensure_table_and_columns that returns leaves every requested
\* column in the schema, and one that raises leaves the schema as it was.
C8_EnsureAtomic ==
    out.op = "ensure" =>
        IF out.exc = "none"
        THEN \A i \in 1..Len(out.arg) : out.arg[i][1] \in ColumnNames(schema)
        ELSE schema = pre.schema

\* C9: normalize_colname returns, and returns the name its definition gives:
\* trimmed, each accented letter of the table folded to its own base letter,
\* lowercased, each run of characters outside [0-9a-z] replaced by one "_",
\* without leading or trailing "_", and "col" when that is empty.
AccentsBase ==
    << "A", "A", "A", "A", "a", "a", "a", "a",
       "E", "E", "E", "e", "e", "e",
       "I", "I", "I", "i", "i", "i",
       "O", "O", "O", "O", "o", "o", "o", "o",
       "U", "U", "U", "u", "u", "u",
       "C", "c", "N", "n" >>

RefNormalize(name) ==
    LET folded == translate(strip(name), << AccentsFrom, AccentsBase >>)
        under == subNonAlnum(lower(folded))
        bare == rstrip(lstrip(under, {"_"}), {"_"})
    IN  IF bare = <<>> THEN col ELSE bare

C9_NormalizeTotalAndCorrect ==
    normOut # NoCall => normOut = Ok(RefNormalize(normIn))

\* C10: normalize_colname returns, and normalizing what it returned returns
\* the same name.
C10_NormalizeIdempotent ==
    normOut # NoCall => (normOut.exc = "none" /\ normTwice = normOut)

\* C11: every header of an imported sheet maps to a field: to its entry of
\* the synonym table when its trimmed lowercase form has one, and otherwise
\* to its normalized name; the mapping raises nothing, and the fields the
\* import works with are the fields of its headers, header by header (so
\* the three spellings of the key header give the key field).
HeaderField(header) ==
    IF FriendlyHas(lower(strip(header))) THEN FriendlyGet(lower(strip(header)))
    ELSE RefNormalize(header)

C11_HeaderMapping ==
    ImportRan =>
        /\ out.exc # "ValueError"
        /\ (\E i \in 1..Len(out.arg) : HeaderField(out.arg[i]) = codigo)
               => hist.fields = [i \in 1..Len(out.arg) |-> HeaderField(out.arg[i])]

\* C12: a call of update_single_record whose updates name a column the table
\* does not have returns False, leaves the rows and the committed rows as
\* they were, and leaves the schema as it was.
UpdateNames(updates) == {updates[i][1] : i \in 1..Len(updates)}

NamesUnknownField == out.op = "update" /\ ~(UpdateNames(out.arg[2]) \subseteq ColumnNames(pre.schema))

C12_RejectUnknownField ==
    NamesUnknownField =>
        /\ out.ret = << FALSE >>
        /\ rows = pre.rows
        /\ committed = pre.committed
        /\ schema = pre.schema

\* C13: when a row of an import raises, the rows after it are not applied,
\* and what the rows before it inserted and updated is committed.
RowRaised == ImportRan /\ pc = "idle" /\ hist.n > 0 /\ out.exc # "none"

C13_PartialCommit ==
    RowRaised =>
        /\ rows = hist.before
        /\ committed = hist.before

\* C14: no step changes the codigo of a row, as seen or committed, and every
\* row has a codigo that is a non-empty text.
KeysKept(old, new) ==
    \A i \in 1..Len(new) : i <= Len(old) => new[i][codigo] = old[i][codigo]

NonEmptyKeys(rws) ==
    \A i \in 1..Len(rws) : rws[i][codigo].t = "text" /\ strip(rws[i][codigo].s) # <<>>

C14_KeyImmutable ==
    [][/\ KeysKept(rows, rows')
       /\ KeysKept(committed, committed')
       /\ NonEmptyKeys(rows')
       /\ NonEmptyKeys(committed')]_vars

\* The manual-entry form has updated a record of the table.
C14_Witness ==
    /\ out.op = "manual"
    /\ out.exc = "none"
    /\ strip(out.arg.codigo) \in Keys(pre.rows)
    /\ rows # pre.rows
    /\ Keys(rows) = Keys(pre.rows)

\* C15: an import of a sheet none of whose headers maps to the key field
\* does not return the counters a successful import returns, and what is
\* reported to the user is one error and nothing else.
C15_MissingKeyIsError ==
    (ImportRan /\ ~HasKeyHeader(out.arg)) =>
        /\ out.exc # "none" \/ Len(out.ret) # 3
        /\ out.ui = << "error" >>

\* C16: a manual update of a record of the table (the manual-entry form or
\* the edit form) leaves every text field that the form leaves empty with
\* the value it had.
TextFields == {produto, categoria, rua, nivel, predio}

ManualUpdate ==
    \/ out.op = "edit"
    \/ out.op = "manual" /\ strip(out.arg.codigo) \in Keys(pre.rows)

TargetKey == IF out.op = "edit" THEN out.arg[1] ELSE strip(out.arg.codigo)

TargetForm == IF out.op = "edit" THEN out.arg[2] ELSE out.arg

FormValue(form, f) ==
    CASE f = produto -> form.produto
      [] f = categoria -> form.categoria
      [] f = rua -> form.rua
      [] f = nivel -> form.nivel
      [] f = predio -> form.predio

C16_ManualKeepsBlankFields ==
    ManualUpdate =>
        \A f \in TextFields :
            FormValue(TargetForm, f) = <<>>
                => Record(rows, TargetKey)[f] = Record(pre.rows, TargetKey)[f]

\* C16, amended: the manual-entry form overwrites no field but qtde unless
\* the form gives it a non-empty value, and when it returns the fields given
\* a value and qtde hold the form's values; the edit form overwrites every
\* field with the form's value, an empty text included.
C16_ManualOverwritePolicy ==
    ManualUpdate =>
        IF out.op = "edit"
        THEN /\ \A f \in TextFields :
                    Record(rows, TargetKey)[f] = Text(FormValue(TargetForm, f))
             /\ Record(rows, TargetKey)[qtde] = Integer(TargetForm.qtde)
        ELSE /\ \A f \in TextFields :
                    IF FormValue(TargetForm, f) = <<>> \/ out.exc # "none"
                    THEN Record(rows, TargetKey)[f] = Record(pre.rows, TargetKey)[f]
                    ELSE Record(rows, TargetKey)[f] = Text(FormValue(TargetForm, f))
             /\ Record(rows, TargetKey)[qtde] =
                    IF out.exc # "none" THEN Record(pre.rows, TargetKey)[qtde]
                    ELSE Integer(TargetForm.qtde)

\* The edit form of a record with a produto was sent with produto empty.
C16_Witness ==
    /\ out.op = "edit"
    /\ TargetForm.produto = <<>>
    /\ Record(pre.rows, TargetKey)[produto] = Text(Bolt)
    /\ Record(rows, TargetKey)[produto] = Text(<<>>)

\* C17: a call of ensure_table_and_columns all of whose columns the table
\* has, with the declared type it has or with another, returns and leaves
\* the schema (names and declared types) and the rows as they were.
ReEnsure ==
    /\ out.op = "ensure"
    /\ \A i \in 1..Len(out.arg) : out.arg[i][1] \in ColumnNames(pre.schema)

C17_ReEnsureIsNoOp ==
    ReEnsure =>
        /\ out.exc = "none"
        /\ schema = pre.schema
        /\ rows = pre.rows

\* qtde INTEGER was ensured again as TEXT on a table with rows.
C17_Witness ==
    /\ ReEnsure
    /\ \E i \in 1..Len(out.arg) : out.arg[i] = << qtde, "TEXT" >>
    /\ ColumnType(schema, qtde) = "INTEGER"
    /\ rows # <<>>

\* C18: inside the loop of an import every field of the sheet is a column of
\* the table, and of the column list the loop works with, from before the
\* first row on; and a row that was inserted or updated has stored every
\* field of its change-set.
C18_SchemaBeforeRows ==
    /\ pc = "rows" =>
           /\ FieldsOf(hist.fields) \subseteq ColumnNames(schema)
           /\ FieldsOf(hist.fields) \subseteq imp.db_cols
    /\ (RowSeen /\ hist.last.outcome \in {"inserted", "updated"}) =>
           \A f \in DOMAIN hist.last.changes :
               Record(rows, LastKey)[f] = hist.last.changes[f]

\* The first row of an import has updated two fields of a record.
C18_Witness ==
    /\ pc = "rows"
    /\ hist.n = 1
    /\ hist.last.outcome = "updated"
    /\ DOMAIN hist.last.changes = {produto, qtde}
    /\ Record(rows, LastKey)[produto] # Record(pre.rows, LastKey)[produto]

\* C19: when an import has returned, every field but codigo of every key of
\* the sheet holds the value of the last row of that key whose change-set
\* had the field, or else what it held before the import (NULL for a key
\* the import inserted).
C19_LastPresentValueWins ==
    (ImportReturned /\ HasKeyHeader(out.arg)) =>
        \A k \in hist.seen :
            /\ k \in Keys(rows)
            /\ \A f \in ColumnNames(schema) \ {codigo} :
                   Record(rows, k)[f] =
                       IF << k, f >> \in DOMAIN hist.expect THEN hist.expect[<< k, f >>]
                       ELSE IF k \in Keys(pre.rows) THEN Record(pre.rows, k)[f]
                       ELSE Null

\* Both rows of a sheet had one key, new to the table: the second row gave a
\* produto again, and qtde came from the first row only.
C19_Witness ==
    /\ ImportReturned
    /\ hist.n = 2
    /\ Cardinality(hist.seen) = 1
    /\ hist.seen \cap Keys(pre.rows) = {}
    /\ hist.last.existed
    /\ produto \in DOMAIN hist.last.changes
    /\ qtde \notin DOMAIN hist.last.changes
    /\ << LastKey, qtde >> \in DOMAIN hist.expect

\* C20: when the import of a sheet has returned and the same sheet is
\* imported again, the second import returns, reports no inserted row, and
\* leaves the schema and the rows as the first import left them.
SecondImportEnded == nops = 2 /\ pc = "idle" /\ out.op = "import"

C20_ReimportIdempotent ==
    SecondImportEnded =>
        /\ out.exc = "none"
        /\ schema = pre.schema
        /\ rows = pre.rows
        /\ out.ret[1] = 0

====
